---- MODULE Spec2Model ----
(***************************************************************************)
(* Photon cellular automaton of main.py (class EMFieldApp): a single       *)
(* electric/magnetic excitation on a GRID_SIZE^3 torus.  The state is the  *)
(* three numpy arrays electric, magnetic, direction and the two history    *)
(* lists; the operations are the Qt callbacks inject_electric, inject_ui   *)
(* and step.  Rendering (update_views, the matplotlib drawing in           *)
(* update_plots, debug_values) reads the state and changes none of it.     *)
(***************************************************************************)
EXTENDS Integers, Sequences, FiniteSets, TLC

\* ------------------------------------------------------------ constants

GRID_SIZE == 7

SPACING == 1

\* N = GRID_SIZE**3, the number of cells.
N == GRID_SIZE * GRID_SIZE * GRID_SIZE

\* half = GRID_SIZE // 2
half == GRID_SIZE \div 2

Cells == 0 .. (N - 1)

Axis == 0 .. (GRID_SIZE - 1)

\* offsets: the six cardinal directions random.choice draws from.
offsets == << <<1, 0, 0>>, <<-1, 0, 0>>, <<0, 1, 0>>, <<0, -1, 0>>, <<0, 0, 1>>, <<0, 0, -1>> >>

ZeroVec == <<0, 0, 0>>

\* ------------------------------------------------------------ bounds

\* Most handler calls (injections and steps together) in one behaviour.
MaxOps == 6

\* Most injections in one behaviour.
MaxInj == 2

\* Most steps after the single injection of the lone-excitation scenario.
MaxTicks == 15

\* ------------------------------------------------------------ topology

\* The ValueError np.ravel_multi_index raises (mode='raise') is modelled as
\* an index outside Cells.
ValueError == -1

\* A plausible slip: column-major (Fortran order) linearisation.
ravel_multi_index_colmajor(x, y, z) ==
    IF x \in Axis /\ y \in Axis /\ z \in Axis
    THEN x + y * GRID_SIZE + z * GRID_SIZE * GRID_SIZE
    ELSE ValueError

\* A plausible slip: mode='clip' instead of the default mode='raise'.
ravel_multi_index_clip(x, y, z) ==
    LET clip(c) == IF c < 0 THEN 0 ELSE IF c > GRID_SIZE - 1 THEN GRID_SIZE - 1 ELSE c
    IN  clip(x) * GRID_SIZE * GRID_SIZE + clip(y) * GRID_SIZE + clip(z)

\* np.ravel_multi_index((x, y, z), (n, n, n)): row-major (C order) index,
\* raising on any coordinate outside [0, n).
ravel_multi_index(x, y, z) ==
    IF x \in Axis /\ y \in Axis /\ z \in Axis
    THEN x * GRID_SIZE * GRID_SIZE + y * GRID_SIZE + z
    ELSE ValueError

\* np.indices((n, n, n)).reshape(3, -1).T : row i is the coordinate triple
\* of cell i in C order.
indices_row(i) ==
    << i \div (GRID_SIZE * GRID_SIZE), (i \div GRID_SIZE) % GRID_SIZE, i % GRID_SIZE >>

coords == [i \in Cells |-> indices_row(i)]

\* center_idx = np.ravel_multi_index((half,)*3, (GRID_SIZE,)*3)
center_idx == ravel_multi_index(half, half, half)

\* A plausible slip: clamping at the wall instead of wrapping.
mod_clamp(a, n) == IF a < 0 THEN 0 ELSE IF a > n - 1 THEN n - 1 ELSE a

\* A plausible slip: wrapping on GRID_SIZE - 1 (the largest coordinate)
\* instead of GRID_SIZE.
mod_short(a, n) == a % (n - 1)

\* Python's (numpy's) integer %: for n > 0 the result is in [0, n).
mod(a, n) == a % n

\* self.cloud.points: pts = (coords - half) * SPACING, kept here in half
\* units (twice the coordinate) so that pick points midway between two cells
\* are integers too.
cloud_points == [i \in Cells |-> [a \in 1..3 |-> 2 * (coords[i][a] - half) * SPACING]]

\* Squared distance (in half units) between cloud point i and pick point p;
\* np.linalg.norm is monotone in it.
norm2(i, p) ==
    (cloud_points[i][1] - p[1]) * (cloud_points[i][1] - p[1])
  + (cloud_points[i][2] - p[2]) * (cloud_points[i][2] - p[2])
  + (cloud_points[i][3] - p[3]) * (cloud_points[i][3] - p[3])

SetMin(S) == CHOOSE m \in S : \A k \in S : m <= k

\* np.argmin(np.linalg.norm(self.cloud.points - pick_point, axis=1)):
\* the first index of the smallest distance.
argmin_norm(p) ==
    LET best == SetMin({norm2(i, p) : i \in Cells})
    IN  SetMin({i \in Cells : norm2(i, p) = best})

\* ------------------------------------------------------------ state

VARIABLES
    electric,     \* self.electric : array of N ints (0/1)
    magnetic,     \* self.magnetic : array of N ints (0/1)
    direction,    \* self.direction: array of N (dx, dy, dz) rows
    e_history,    \* self.e_history: list of samples of electric[center_idx]
    m_history,    \* self.m_history: list of samples of magnetic[center_idx]
    call,         \* the handler that ran last, the index it resolved, its argument
    src,          \* cell and direction of the most recent injection
    ticks,        \* step calls since the most recent injection (or construction)
    nInj,         \* injections so far
    nOps,         \* handler calls completed so far
    pc,           \* "idle", or the statement the running handler executes next
    pending       \* the running handler's locals: its name, idx, drawn offset and argument,
                  \* and the arrays it is due to leave (for step: newE, newB, newDir)

vars == << electric, magnetic, direction, e_history, m_history, call, src, ticks, nInj, nOps,
           pc, pending >>

\* The three arrays as one value, for the pure parts of the handlers.
fields == [electric |-> electric, magnetic |-> magnetic, direction |-> direction]

\* np.zeros(N), np.zeros((N, 3)), np.zeros_like(...)
zeros == [i \in Cells |-> 0]

zeros3 == [i \in Cells |-> ZeroVec]

\* The locals when no handler is running.
NoCall == [op |-> "", idx |-> ValueError, d |-> ZeroVec, arg |-> ZeroVec,
           nw |-> [electric |-> << >>, magnetic |-> << >>, direction |-> << >>]]

\* ------------------------------------------------------------ injection

\* A plausible slip: the magnetic array is not cleared.
reset_bits_keep_magnetic(fs) == [fs EXCEPT !.electric = zeros]

\* A plausible slip: the electric array is not cleared.
reset_bits_keep_electric(fs) == [fs EXCEPT !.magnetic = zeros]

\* "Reset state": self.electric[:] = 0; self.magnetic[:] = 0.  The direction
\* array is not touched.
reset_bits(fs) == [fs EXCEPT !.electric = zeros, !.magnetic = zeros]

\* self.electric[idx] = 1; self.direction[idx] = random.choice(offsets),
\* d being the drawn offset.
set_photon(fs, idx, d) == [fs EXCEPT !.electric[idx] = 1, !.direction[idx] = d]

\* The state part of both injection handlers once idx is known.
inject_fields(fs, idx, d) == set_photon(reset_bits(fs), idx, d)

\* ------------------------------------------------------------ step

\* A plausible slip: the field bit is copied, not flipped.
step_cell_noflip(idx, fs, nw) ==
    LET c    == coords[idx]
        d    == fs.direction[idx]
        tidx == ravel_multi_index(mod(c[1] + d[1], GRID_SIZE),
                                  mod(c[2] + d[2], GRID_SIZE),
                                  mod(c[3] + d[3], GRID_SIZE))
    IN  IF fs.electric[idx] # 0
        THEN [nw EXCEPT !.electric[tidx] = 1, !.direction[tidx] = d]
        ELSE [nw EXCEPT !.magnetic[tidx] = 1, !.direction[tidx] = d]

\* A plausible slip: both bits are raised at the target.
step_cell_both(idx, fs, nw) ==
    LET c    == coords[idx]
        d    == fs.direction[idx]
        tidx == ravel_multi_index(mod(c[1] + d[1], GRID_SIZE),
                                  mod(c[2] + d[2], GRID_SIZE),
                                  mod(c[3] + d[3], GRID_SIZE))
    IN  [nw EXCEPT !.electric[tidx] = 1, !.magnetic[tidx] = 1, !.direction[tidx] = d]

\* A plausible slip: the direction is not carried to the target.
step_cell_nocarry(idx, fs, nw) ==
    LET c    == coords[idx]
        d    == fs.direction[idx]
        tidx == ravel_multi_index(mod(c[1] + d[1], GRID_SIZE),
                                  mod(c[2] + d[2], GRID_SIZE),
                                  mod(c[3] + d[3], GRID_SIZE))
    IN  IF fs.electric[idx] # 0
        THEN [nw EXCEPT !.magnetic[tidx] = 1]
        ELSE [nw EXCEPT !.electric[tidx] = 1]

\* A plausible slip: the occupant is cleared but nothing is written at the
\* target.
step_cell_drop(idx, fs, nw) == nw

\* The body of "for idx in occupied": the target with wrap-around, the
\* flipped bit at the target, the direction carried forward.
step_cell(idx, fs, nw) ==
    LET c    == coords[idx]
        d    == fs.direction[idx]
        tidx == ravel_multi_index(mod(c[1] + d[1], GRID_SIZE),
                                  mod(c[2] + d[2], GRID_SIZE),
                                  mod(c[3] + d[3], GRID_SIZE))
    IN  IF fs.electric[idx] # 0
        THEN [nw EXCEPT !.magnetic[tidx] = 1, !.direction[tidx] = d]
        ELSE [nw EXCEPT !.electric[tidx] = 1, !.direction[tidx] = d]

\* np.nonzero(self.electric | self.magnetic)[0]; on 0/1 ints the bitwise or
\* is nonzero exactly when one of the two is.
occupied(fs) == {i \in Cells : fs.electric[i] # 0 \/ fs.magnetic[i] # 0}

\* The loop over occupied, in ascending index order, writing the new buffers.
RECURSIVE step_loop(_, _, _)
step_loop(occ, fs, nw) ==
    IF occ = {}
    THEN nw
    ELSE LET idx == SetMin(occ)
         IN  step_loop(occ \ {idx}, fs, step_cell(idx, fs, nw))

\* A plausible slip: newDir starts as a copy of the old directions.
step_fields_keepdir(fs) ==
    step_loop(occupied(fs), fs,
              [electric |-> zeros, magnetic |-> zeros, direction |-> fs.direction])

\* newE, newB, newDir after the loop; they then replace the three arrays.
step_fields(fs) ==
    step_loop(occupied(fs), fs, [electric |-> zeros, magnetic |-> zeros, direction |-> zeros3])

\* ------------------------------------------------------------ history

\* A plausible slip: the sample is taken from the arrays as they were before
\* the handler changed them.
update_plots_stale ==
    /\ e_history' = Append(e_history, electric[center_idx])
    /\ m_history' = Append(m_history, magnetic[center_idx])

\* A plausible slip: the lists are rebound to the newest sample alone.
update_plots_restart ==
    /\ e_history' = << electric'[center_idx] >>
    /\ m_history' = << magnetic'[center_idx] >>

\* update_plots: append the centre cell's two bits as they are at the end of
\* the handler (the drawing that follows reads only).
update_plots ==
    /\ e_history' = Append(e_history, electric'[center_idx])
    /\ m_history' = Append(m_history, magnetic'[center_idx])

\* ------------------------------------------------------------ handlers

\* The state after __init__: zero arrays, and the one sample update_plots
\* takes at the end of construction.
Init ==
    /\ electric = zeros
    /\ magnetic = zeros
    /\ direction = zeros3
    /\ e_history = << zeros[center_idx] >>
    /\ m_history = << zeros[center_idx] >>
    /\ call = [op |-> "__init__", idx |-> ValueError, arg |-> ZeroVec]
    /\ src = [idx |-> ValueError, dir |-> ZeroVec]
    /\ ticks = 0
    /\ nInj = 0
    /\ nOps = 0
    /\ pc = "idle"
    /\ pending = NoCall

\* The assignments both injection handlers make once idx and the drawn
\* offset d are known, and the trailing update_plots.
inject_at(name, idx, d, arg) ==
    LET nw == inject_fields(fields, idx, d)
    IN  /\ electric' = nw.electric
        /\ magnetic' = nw.magnetic
        /\ direction' = nw.direction
        /\ update_plots
        /\ call' = [op |-> name, idx |-> idx, arg |-> arg]
        /\ src' = [idx |-> idx, dir |-> d]
        /\ ticks' = 0
        /\ nInj' = nInj + 1
        /\ nOps' = nOps + 1
        /\ UNCHANGED << pc, pending >>

\* inject_electric(pick_point): pick_point p in half units.
inject_electric(p) ==
    \E k \in 1..Len(offsets) :
        inject_at("inject_electric", argmin_norm(p), offsets[k], p)

\* inject_ui(): sx, sy, sz are the three spin box values.  A ValueError from
\* np.ravel_multi_index leaves the handler before its first assignment.
inject_ui(sx, sy, sz) ==
    LET x   == sx + half
        y   == sy + half
        z   == sz + half
        idx == ravel_multi_index(x, y, z)
    IN  IF idx = ValueError
        THEN /\ call' = [op |-> "inject_ui", idx |-> ValueError, arg |-> <<x, y, z>>]
             /\ UNCHANGED << electric, magnetic, direction, e_history, m_history,
                             src, ticks, nInj, nOps, pc, pending >>
        ELSE \E k \in 1..Len(offsets) :
                inject_at("inject_ui", idx, offsets[k], <<x, y, z>>)

\* A plausible slip: step returns early, before update_plots, when no cell is
\* occupied.
step_return_if_empty ==
    LET nw == step_fields(fields)
    IN  /\ electric' = nw.electric
        /\ magnetic' = nw.magnetic
        /\ direction' = nw.direction
        /\ IF occupied(fields) = {}
           THEN UNCHANGED << e_history, m_history >>
           ELSE update_plots
        /\ call' = [op |-> "step", idx |-> ValueError, arg |-> ZeroVec]
        /\ ticks' = ticks + 1
        /\ nOps' = nOps + 1
        /\ UNCHANGED << src, nInj, pc, pending >>

\* step()
step ==
    LET nw == step_fields(fields)
    IN  /\ electric' = nw.electric
        /\ magnetic' = nw.magnetic
        /\ direction' = nw.direction
        /\ update_plots
        /\ call' = [op |-> "step", idx |-> ValueError, arg |-> ZeroVec]
        /\ ticks' = ticks + 1
        /\ nOps' = nOps + 1
        /\ UNCHANGED << src, nInj, pc, pending >>

\* ------------------------------------------------------------ statement by statement

\* The same handlers one statement at a time.  Qt runs a callback to its end
\* before it delivers the next event, so a handler starts only when pc is
\* "idle"; the display readers update_views and update_plots run where the
\* handlers call them.

\* What a statement leaves alone besides the arrays and pc.
keep_books == UNCHANGED << e_history, m_history, call, src, ticks, nInj, nOps, pending >>

\* step, up to the end of the loop: the new buffers are built.
step_begin ==
    /\ pc = "idle"
    /\ pending' = [op |-> "step", idx |-> ValueError, d |-> ZeroVec, arg |-> ZeroVec,
                   nw |-> step_fields(fields)]
    /\ pc' = "step_electric"
    /\ UNCHANGED << electric, magnetic, direction, e_history, m_history,
                    call, src, ticks, nInj, nOps >>

\* self.electric[:] = newE
step_electric ==
    /\ pc = "step_electric"
    /\ electric' = pending.nw.electric
    /\ pc' = "step_magnetic"
    /\ UNCHANGED << magnetic, direction >>
    /\ keep_books

\* A plausible slip: update_views is called before self.direction is written.
step_magnetic_then_views ==
    /\ pc = "step_magnetic"
    /\ magnetic' = pending.nw.magnetic
    /\ pc' = "step_views"
    /\ UNCHANGED << electric, direction >>
    /\ keep_books

\* self.magnetic[:] = newB
step_magnetic ==
    /\ pc = "step_magnetic"
    /\ magnetic' = pending.nw.magnetic
    /\ pc' = "step_direction"
    /\ UNCHANGED << electric, direction >>
    /\ keep_books

\* self.direction[:] = newDir
step_direction ==
    /\ pc = "step_direction"
    /\ direction' = pending.nw.direction
    /\ pc' = "step_views"
    /\ UNCHANGED << electric, magnetic >>
    /\ keep_books

\* self.update_views() in step: reads electric and magnetic, writes nothing.
step_views ==
    /\ pc = "step_views"
    /\ pc' = "step_plots"
    /\ UNCHANGED << electric, magnetic, direction >>
    /\ keep_books

\* self.update_plots() in step, and the return.
step_plots ==
    /\ pc = "step_plots"
    /\ UNCHANGED << electric, magnetic, direction >>
    /\ update_plots
    /\ call' = [op |-> "step", idx |-> ValueError, arg |-> ZeroVec]
    /\ ticks' = ticks + 1
    /\ nOps' = nOps + 1
    /\ pc' = "idle"
    /\ pending' = NoCall
    /\ UNCHANGED << src, nInj >>

\* An injection handler up to its idx: nw is what the handler is due to
\* leave, the statements below do the writing.
inject_begin(name, idx, d, arg) ==
    /\ pc = "idle"
    /\ pending' = [op |-> name, idx |-> idx, d |-> d, arg |-> arg,
                   nw |-> inject_fields(fields, idx, d)]
    /\ pc' = "inject_clear_electric"
    /\ UNCHANGED << electric, magnetic, direction, e_history, m_history,
                    call, src, ticks, nInj, nOps >>

\* inject_electric up to idx = np.argmin(...), with the offset it will draw.
inject_electric_begin(p) ==
    \E k \in 1..Len(offsets) :
        inject_begin("inject_electric", argmin_norm(p), offsets[k], p)

\* inject_ui up to idx = np.ravel_multi_index(...), with the offset it will
\* draw; sx, sy, sz within the spin boxes' range.
inject_ui_begin(sx, sy, sz) ==
    \E k \in 1..Len(offsets) :
        inject_begin("inject_ui", ravel_multi_index(sx + half, sy + half, sz + half),
                     offsets[k], <<sx + half, sy + half, sz + half>>)

\* self.electric[:] = 0
inject_clear_electric ==
    /\ pc = "inject_clear_electric"
    /\ electric' = zeros
    /\ pc' = "inject_clear_magnetic"
    /\ UNCHANGED << magnetic, direction >>
    /\ keep_books

\* self.magnetic[:] = 0
inject_clear_magnetic ==
    /\ pc = "inject_clear_magnetic"
    /\ magnetic' = zeros
    /\ pc' = "inject_set_electric"
    /\ UNCHANGED << electric, direction >>
    /\ keep_books

\* self.electric[idx] = 1
inject_set_electric ==
    /\ pc = "inject_set_electric"
    /\ electric' = [electric EXCEPT ![pending.idx] = 1]
    /\ pc' = "inject_set_direction"
    /\ UNCHANGED << magnetic, direction >>
    /\ keep_books

\* self.direction[idx] = random.choice(offsets)
inject_set_direction ==
    /\ pc = "inject_set_direction"
    /\ direction' = [direction EXCEPT ![pending.idx] = pending.d]
    /\ pc' = "inject_views"
    /\ UNCHANGED << electric, magnetic >>
    /\ keep_books

\* self.update_views() in an injection handler.
inject_views ==
    /\ pc = "inject_views"
    /\ pc' = "inject_plots"
    /\ UNCHANGED << electric, magnetic, direction >>
    /\ keep_books

\* self.update_plots() in an injection handler, and the return.
inject_plots ==
    /\ pc = "inject_plots"
    /\ UNCHANGED << electric, magnetic, direction >>
    /\ update_plots
    /\ call' = [op |-> pending.op, idx |-> pending.idx, arg |-> pending.arg]
    /\ src' = [idx |-> pending.idx, dir |-> pending.d]
    /\ ticks' = 0
    /\ nInj' = nInj + 1
    /\ nOps' = nOps + 1
    /\ pc' = "idle"
    /\ pending' = NoCall

\* ------------------------------------------------------------ specifications

\* The spin boxes are ranged to [-half, half] (setRange); the (x, y, z)
\* settings tried: two opposite corners, where every axis wraps.
SpinTriples == { <<-half, -half, -half>>, <<half, half, half>> }

\* The pick point tried, in half units: midway between the centre cell and
\* its +x neighbour.
PickPoints == { <<1, 0, 0>> }

\* Any interleaving of the three handlers, at most MaxOps calls of which at
\* most MaxInj are injections.
Next ==
    \/ /\ nOps < MaxOps
       /\ nInj < MaxInj
       /\ \E p \in PickPoints : inject_electric(p)
    \/ /\ nOps < MaxOps
       /\ nInj < MaxInj
       /\ \E s \in SpinTriples : inject_ui(s[1], s[2], s[3])
    \/ /\ nOps < MaxOps
       /\ step

Spec == Init /\ [][Next]_vars

\* Every setting of the three spin boxes.
SpinRange == (-half) .. half

\* Pick points of the lone-excitation scenario, in half units: the centre, a
\* point beyond the -x wall, a point beyond a corner, and a point midway
\* between two cells on the y axis.
LonePickPoints ==
    { <<0, 0, 0>>, <<-2 * half - 2, 0, 0>>, <<2 * half + 3, 2 * half + 1, -2 * half - 4>>,
      <<2, -3, 4>> }

\* The lone excitation: one injection, at any cell of the grid and with any
\* of the six directions, then steps only.
NextLone ==
    \/ /\ nInj = 0
       /\ \E sx \in SpinRange, sy \in SpinRange, sz \in SpinRange : inject_ui(sx, sy, sz)
    \/ /\ nInj = 0
       /\ \E p \in LonePickPoints : inject_electric(p)
    \/ /\ nInj > 0
       /\ ticks < MaxTicks
       /\ step

SpecLone == Init /\ [][NextLone]_vars

\* Spin settings outside the range the spin boxes are given: one too high on
\* x, one too low on z.
RawSpinTriples == { <<half + 1, 0, 0>>, <<0, half, -half - 1>> }

\* The handlers as in Next, and inject_ui also run on spin values that
\* setRange would not let through.
NextRaw ==
    \/ Next
    \/ \E s \in RawSpinTriples : inject_ui(s[1], s[2], s[3])

SpecRaw == Init /\ [][NextRaw]_vars

\* Cells next to the centre, from which occupants can meet: (2,3,3),
\* (4,3,3) and (3,4,3).
CollideCells ==
    { ravel_multi_index(half - 1, half, half),
      ravel_multi_index(half + 1, half, half),
      ravel_multi_index(half, half + 1, half) }

\* Field states with two or three occupants, as step would meet them if
\* several excitations were present: each occupant electric or magnetic
\* (never both) with one of the six directions, every other cell at rest.
\* No handler of the program produces such a state (every injection clears
\* both bit arrays); they are the inputs of step as a function of the three
\* arrays.
InitCollide ==
    \E S \in SUBSET CollideCells :
      \E ty \in [S -> {"E", "B"}] :
        \E dr \in [S -> 1..Len(offsets)] :
            /\ Cardinality(S) >= 2
            /\ electric = [i \in Cells |-> IF i \in S /\ ty[i] = "E" THEN 1 ELSE 0]
            /\ magnetic = [i \in Cells |-> IF i \in S /\ ty[i] = "B" THEN 1 ELSE 0]
            /\ direction = [i \in Cells |-> IF i \in S THEN offsets[dr[i]] ELSE ZeroVec]
            /\ e_history = << 0 >>
            /\ m_history = << 0 >>
            /\ call = [op |-> "__init__", idx |-> ValueError, arg |-> ZeroVec]
            /\ src = [idx |-> ValueError, dir |-> ZeroVec]
            /\ ticks = 0
            /\ nInj = 0
            /\ nOps = 0
            /\ pc = "idle"
            /\ pending = NoCall

\* step applied, repeatedly, to the multi-occupant states.
NextCollide ==
    /\ nOps < MaxOps
    /\ step

SpecCollide == InitCollide /\ [][NextCollide]_vars

\* The spin box setting and the pick point of the statement-by-statement
\* runs: corner (6,6,6), and the pick point of PickPoints.
FineSpinTriples == { <<half, half, half>> }

FinePickPoints == { <<1, 0, 0>> }

\* Any sequence of handler calls, each run statement by statement to its
\* end before the next starts.
NextFine ==
    \/ /\ nOps < MaxOps
       /\ nInj < MaxInj
       /\ \E p \in FinePickPoints : inject_electric_begin(p)
    \/ /\ nOps < MaxOps
       /\ nInj < MaxInj
       /\ \E s \in FineSpinTriples : inject_ui_begin(s[1], s[2], s[3])
    \/ inject_clear_electric
    \/ inject_clear_magnetic
    \/ inject_set_electric
    \/ inject_set_direction
    \/ inject_views
    \/ inject_plots
    \/ /\ nOps < MaxOps
       /\ step_begin
    \/ step_electric
    \/ step_magnetic
    \/ step_direction
    \/ step_views
    \/ step_plots

SpecFine == Init /\ [][NextFine]_vars

\* ------------------------------------------------------------ properties

\* Number of cells at which the array is set.
Count(arr) == Cardinality({i \in Cells : arr[i] # 0})

\* The handler that ran last was an injection that went through.
Injected == call.op \in {"inject_electric", "inject_ui"} /\ call.idx # ValueError

\* The six axis-aligned unit vectors, written out.
UnitVectors ==
    { <<1, 0, 0>>, <<-1, 0, 0>>, <<0, 1, 0>>, <<0, -1, 0>>, <<0, 0, 1>>, <<0, 0, -1>> }

\* C1: mutual exclusion.  In every state reachable from construction by
\* injections and steps, no cell has electric and magnetic both set.
MutualExclusion ==
    \A i \in Cells : ~(electric[i] # 0 /\ magnetic[i] # 0)

\* C1 witness: a step has just moved the excitation of a second injection,
\* so a magnetic cell exists.
MutualExclusionWitness ==
    /\ call.op = "step"
    /\ nInj = 2
    /\ \E i \in Cells : magnetic[i] = 1 /\ electric[i] = 0

\* C2: single-excitation conservation.  Once an injection has happened,
\* after any further steps and injections the number of electric cells plus
\* the number of magnetic cells is exactly 1.
SingleExcitation ==
    nInj > 0 => Count(electric) + Count(magnetic) = 1

\* C2 witness: two steps after a second injection.
SingleExcitationWitness ==
    /\ nInj = 2
    /\ ticks = 2
    /\ call.op = "step"
    /\ Count(electric) = 1

\* C3: injection postcondition.  Right after an injection targeting cell t,
\* electric is set at t and nowhere else, magnetic is clear everywhere, and
\* direction[t] is one of the six axis-aligned unit vectors.
InjectionPostcondition ==
    Injected =>
        /\ call.idx \in Cells
        /\ \A i \in Cells : electric[i] = (IF i = call.idx THEN 1 ELSE 0)
        /\ \A i \in Cells : magnetic[i] = 0
        /\ direction[call.idx] \in UnitVectors

\* C3 witness: inject_ui at corner (0,0,0) right after the excitation
\* injected at corner (6,6,6) with direction +x had stepped, magnetic, to
\* (0,6,6): its direction is still recorded there.
InjectionPostconditionWitness ==
    /\ call.op = "inject_ui"
    /\ call.arg = <<0, 0, 0>>
    /\ nOps = 3
    /\ direction[6 * GRID_SIZE + 6] = <<1, 0, 0>>
    /\ direction[N - 1] = ZeroVec
    /\ electric[0] = 1

\* C4 (as claimed): right after an injection at t, the direction of every
\* cell other than t is the zero vector.
InjectionClearsDirections ==
    Injected => \A i \in Cells : i # call.idx => direction[i] = ZeroVec

\* C5: type toggling.  Every step flips the lone excitation's field type,
\* and k steps after an injection it is electric exactly when k is even.
TypeParity ==
    nInj > 0 =>
        IF ticks % 2 = 0
        THEN Count(electric) = 1 /\ Count(magnetic) = 0
        ELSE Count(electric) = 0 /\ Count(magnetic) = 1

TypeFlip ==
    (call'.op = "step" /\ nInj > 0) =>
        /\ Count(electric) = 1 => (Count(magnetic') = 1 /\ Count(electric') = 0)
        /\ Count(magnetic) = 1 => (Count(electric') = 1 /\ Count(magnetic') = 0)

TypeToggling == [](TypeParity) /\ [][TypeFlip]_vars

\* C5 witness: three steps after a second injection, the excitation magnetic.
TypeTogglingWitness ==
    /\ nInj = 2
    /\ ticks = 3
    /\ call.op = "step"
    /\ Count(magnetic) = 1
    /\ Count(electric) = 0

\* The coordinate one cell on from c in direction d on a torus of side
\* GRID_SIZE, written without a modulo.
Wrapped(c, d) ==
    IF c + d = GRID_SIZE THEN 0 ELSE IF c + d = -1 THEN GRID_SIZE - 1 ELSE c + d

\* C6: wrap-around.  A step places the lone excitation at coordinate c with
\* direction component d at (c + d) mod L, a residue in [0, L), on every
\* axis: L-1 with +1 goes to 0, 0 with -1 goes to L-1; the target index is
\* inside [0, L^3).
WrapStep ==
    (call'.op = "step" /\ nInj > 0) =>
        \A i \in Cells :
            (electric[i] # 0 \/ magnetic[i] # 0) =>
                \E j \in Cells :
                    /\ (electric'[j] # 0 \/ magnetic'[j] # 0)
                    /\ \A a \in 1..3 :
                        /\ coords[j][a] = Wrapped(coords[i][a], direction[i][a])
                        /\ coords[j][a] \in 0 .. (GRID_SIZE - 1)
                        /\ direction[i][a] = 1 /\ coords[i][a] = GRID_SIZE - 1
                               => coords[j][a] = 0
                        /\ direction[i][a] = -1 /\ coords[i][a] = 0
                               => coords[j][a] = GRID_SIZE - 1

WrapAround == [][WrapStep]_vars

\* C6 witness: the first step after an injection on the -z wall with
\* direction -z: the excitation stands on the +z wall.
WrapAroundWitness ==
    /\ call.op = "step"
    /\ ticks = 1
    /\ src.dir = <<0, 0, -1>>
    /\ coords[src.idx] = <<2, 5, 0>>
    /\ magnetic[ravel_multi_index(2, 5, GRID_SIZE - 1)] = 1

\* C7: trajectory.  k steps after an injection at (x, y, z) with direction
\* (dx, dy, dz) the only active cell is ((x+k*dx) mod L, (y+k*dy) mod L,
\* (z+k*dz) mod L); for L = 7, the centre and +x: electric at the centre
\* (cell 171) before any step, magnetic at cell 220 after one, electric at
\* cell 269 and nothing magnetic after two.
Trajectory ==
    /\ nInj > 0 =>
          LET c == coords[src.idx]
              t == ((c[1] + ticks * src.dir[1]) % GRID_SIZE) * GRID_SIZE * GRID_SIZE
                   + ((c[2] + ticks * src.dir[2]) % GRID_SIZE) * GRID_SIZE
                   + ((c[3] + ticks * src.dir[3]) % GRID_SIZE)
          IN  \A i \in Cells : (electric[i] # 0 \/ magnetic[i] # 0) <=> i = t
    /\ (nInj > 0 /\ src = [idx |-> 171, dir |-> <<1, 0, 0>>]) =>
          /\ ticks = 0 => electric[171] = 1
          /\ ticks = 1 => electric[171] = 0 /\ magnetic[220] = 1
          /\ ticks = 2 => electric[269] = 1 /\ Count(magnetic) = 0

\* C7 witness: two steps after an injection at the centre cell drew +x.
TrajectoryWitness ==
    /\ call.op = "step"
    /\ ticks = 2
    /\ src = [idx |-> 171, dir |-> <<1, 0, 0>>]
    /\ electric[269] = 1

\* C8: history length and last entry.  After k handler calls each history
\* has 1 + k entries and its last entry is the centre cell's current bit.
HistoryLength ==
    /\ Len(e_history) = 1 + nOps
    /\ Len(m_history) = 1 + nOps
    /\ e_history[Len(e_history)] = electric[center_idx]
    /\ m_history[Len(m_history)] = magnetic[center_idx]

\* C8 witness: a second injection, at the centre, after at least one step:
\* the newest electric sample is 1.
HistoryLengthWitness ==
    /\ nInj = 2
    /\ nOps >= 3
    /\ Injected
    /\ e_history[Len(e_history)] = 1
    /\ m_history[Len(m_history)] = 0

\* C9: topology round trip.  The coordinate table undoes the row-major
\* index (for the coordinate inject_ui was given), the index undoes the
\* table (for the cell the excitation stands on), and the centre index is
\* the cell at (L/2, L/2, L/2).
TopologyRoundTrip ==
    /\ (call.op = "inject_ui" /\ call.idx # ValueError) =>
          coords[ravel_multi_index(call.arg[1], call.arg[2], call.arg[3])] = call.arg
    /\ \A i \in Cells :
          (electric[i] # 0 \/ magnetic[i] # 0) =>
              ravel_multi_index(coords[i][1], coords[i][2], coords[i][3]) = i
    /\ coords[center_idx] = <<GRID_SIZE \div 2, GRID_SIZE \div 2, GRID_SIZE \div 2>>

\* C9 witness: inject_ui on a coordinate whose three components differ.
TopologyRoundTripWitness ==
    /\ call.op = "inject_ui"
    /\ call.arg = <<1, 4, 6>>
    /\ electric[1 * 49 + 4 * 7 + 6] = 1

\* C10: an injection given a coordinate outside [0, L)^3 fails before any
\* state changes: the three arrays and both histories are as they were.
RejectStep ==
    (/\ call'.op = "inject_ui"
     /\ \E a \in 1..3 : call'.arg[a] < 0 \/ call'.arg[a] > GRID_SIZE - 1)
        => UNCHANGED << electric, magnetic, direction, e_history, m_history >>

InvalidInjectionRejected == [][RejectStep]_vars

\* C10 witness: inject_ui has just refused a coordinate while a magnetic
\* excitation and two earlier injections' samples were in place.
InvalidInjectionRejectedWitness ==
    /\ call.op = "inject_ui"
    /\ call.idx = ValueError
    /\ call.arg = <<2 * half + 1, half, half>>
    /\ nInj = 2
    /\ Count(magnetic) = 1
    /\ Len(e_history) > 3

InactiveFixedPoint ==
    nInj = 0 =>
        /\ \A i \in Cells : electric[i] = 0 /\ magnetic[i] = 0 /\ direction[i] = <<0, 0, 0>>
        /\ Len(e_history) = 1 + ticks
        /\ Len(m_history) = 1 + ticks
        /\ \A k \in 1..Len(e_history) : e_history[k] = 0
        /\ \A k \in 1..Len(m_history) : m_history[k] = 0

\* C13 witness: three consecutive steps on the state construction left.
InactiveFixedPointWitness ==
    /\ nInj = 0
    /\ ticks = 3
    /\ call.op = "step"
    /\ Len(e_history) = 4

\* s is an initial segment of t.
IsPrefix(s, t) == Len(s) <= Len(t) /\ \A k \in 1..Len(s) : s[k] = t[k]

\* C15: history is append-only.  After each step or injection the previous
\* e_history and m_history are prefixes of the new ones; an injection does
\* not clear them.
AppendOnlyStep ==
    /\ IsPrefix(e_history, e_history')
    /\ IsPrefix(m_history, m_history')
    /\ call'.op \in {"inject_electric", "inject_ui", "step"} /\ call'.idx # ValueError
           => Len(e_history') = Len(e_history) + 1
    /\ call'.op = "step" => Len(m_history') = Len(m_history) + 1

HistoryAppendOnly == [][AppendOnlyStep]_vars

\* C15 witness: the second injection, at a corner, has kept the 1 that the
\* first injection, at the centre, recorded as sample 2.
HistoryAppendOnlyWitness ==
    /\ Injected
    /\ nInj = 2
    /\ call.idx = 0
    /\ Len(e_history) >= 4
    /\ e_history[2] = 1
    /\ e_history[Len(e_history)] = 0

\* C16: direction bookkeeping.  Right after a step the direction is nonzero
\* exactly at the active cell, whatever directions were recorded before the
\* step, and there it is the direction drawn at the most recent injection;
\* in every state each direction is zero or an axis-aligned unit vector.
DirectionBookkeeping ==
    /\ call.op = "step" =>
          \A i \in Cells :
              /\ direction[i] # <<0, 0, 0>> <=> (electric[i] # 0 \/ magnetic[i] # 0)
              /\ (electric[i] # 0 \/ magnetic[i] # 0) => direction[i] = src.dir
    /\ \A i \in Cells : direction[i] \in UnitVectors \cup {<<0, 0, 0>>}

\* C16 witness: injection at the centre, injection at corner (0,0,0), one
\* step: the centre's recorded direction was there before the step.
DirectionBookkeepingWitness ==
    /\ call.op = "step"
    /\ nOps = 3
    /\ nInj = 2
    /\ e_history[2] = 1
    /\ src.idx = 0
    /\ direction[171] = <<0, 0, 0>>

\* C17: periodicity on the torus.  L steps after an injection at t the
\* excitation is at t and magnetic; 2L steps after it the electric and
\* magnetic arrays and the active cell's direction are those the injection
\* left; at no step count k with 0 < k < 2L is it electric at t.
Periodicity ==
    nInj > 0 =>
        /\ ticks = GRID_SIZE =>
              /\ magnetic[src.idx] = 1
              /\ electric[src.idx] = 0
        /\ ticks = 2 * GRID_SIZE =>
              /\ \A i \in Cells : electric[i] = (IF i = src.idx THEN 1 ELSE 0)
              /\ \A i \in Cells : magnetic[i] = 0
              /\ direction[src.idx] = src.dir
        /\ (0 < ticks /\ ticks < 2 * GRID_SIZE) => electric[src.idx] = 0
        /\ GRID_SIZE % 2 = 1

\* C17 witness: the fourteenth step after an injection.
PeriodicityWitness ==
    /\ call.op = "step"
    /\ ticks = 2 * GRID_SIZE
    /\ nInj = 1
    /\ electric[src.idx] = 1

\* C18: history samples are mutually exclusive.  Every e_history[j] and
\* m_history[j] is 0 or 1, and they are never both 1.
HistorySamplesExclusive ==
    /\ Len(e_history) = Len(m_history)
    /\ \A j \in 1..Len(e_history) :
          /\ e_history[j] \in {0, 1}
          /\ m_history[j] \in {0, 1}
          /\ ~(e_history[j] = 1 /\ m_history[j] = 1)

\* C18 witness: a history holding a magnetic 1 (the excitation crossing the
\* centre on an odd tick) and, later, an electric 1.
HistorySamplesExclusiveWitness ==
    /\ \E j \in 1..Len(m_history) : m_history[j] = 1
    /\ e_history[Len(e_history)] = 1
    /\ call.op = "step"

\* The cell one step on from cell i along its recorded direction, written
\* without the model's index and modulo operators.
TargetOf(i) ==
    Wrapped(i \div 49, direction[i][1]) * 49
        + Wrapped((i \div 7) % 7, direction[i][2]) * 7
        + Wrapped(i % 7, direction[i][3])

\* C12 (as claimed): when two or more occupied cells of a mutually
\* exclusive field state step onto the same target t, cell t afterwards
\* carries the direction and the flipped field type of the occupant with
\* the highest source index only: exactly one of electric[t], magnetic[t]
\* is set.
CollisionStep ==
    (call'.op = "step" /\ MutualExclusion) =>
        LET occ == {i \in Cells : electric[i] # 0 \/ magnetic[i] # 0}
        IN  \A i \in occ :
                LET t    == TargetOf(i)
                    S    == {j \in occ : TargetOf(j) = t}
                    last == CHOOSE j \in S : \A k \in S : k <= j
                IN  Cardinality(S) >= 2 =>
                        /\ direction'[t] = direction[last]
                        /\ electric[last] # 0 => (magnetic'[t] = 1 /\ electric'[t] = 0)
                        /\ electric[last] = 0 => (electric'[t] = 1 /\ magnetic'[t] = 0)

AtReader == pc \in {"step_views", "step_plots", "inject_views", "inject_plots"}

\* C14: no half-updated generation is observed.  Whenever update_views or
\* update_plots reads the arrays, electric, magnetic and direction together
\* are the complete result of the injection or step that calls the reader,
\* never a mix of old and new arrays; between handler calls they are the
\* result of the last one.
NoTornRead ==
    /\ AtReader =>
          /\ electric = pending.nw.electric
          /\ magnetic = pending.nw.magnetic
          /\ direction = pending.nw.direction
    /\ (AtReader \/ pc = "idle") =>
          /\ \A i \in Cells : ~(electric[i] # 0 /\ magnetic[i] # 0)
          /\ \A i \in Cells :
                (electric[i] # 0 \/ magnetic[i] # 0) => direction[i] \in UnitVectors

\* C14 witness: update_views is about to read in a step that moved the
\* excitation of a second injection: all three arrays were rewritten.
NoTornReadWitness ==
    /\ pc = "step_views"
    /\ nInj = 2
    /\ Count(magnetic) = 1
    /\ Count(electric) = 0
    /\ \E i \in Cells : magnetic[i] = 1 /\ direction[i] = src.dir

====
